---- MODULE Spec2Model ----
(***************************************************************************)
(* Point-of-sale transaction engine of pos-app1: catalog with stock and    *)
(* expiry, cart, pricing, checkout validation, sale commit and receipt.    *)
(* Two builds of the app are modelled: "simple" (Simple POS, the same      *)
(* logic as NovaPOS) and "mnl" (MNL Coffee Supplies, with login and the    *)
(* admin add/remove item form).  The build is chosen in Init.              *)
(*                                                                         *)
(* Time is counted in ticks, TicksPerDay ticks to a day; a date is the     *)
(* number of its day.  Money is kept in units of 1/MoneyScale so that the  *)
(* percentages are exact.  Quantities and stock are counted in units of    *)
(* 1/QtyScale of a piece, so that a typed quantity of 1.5 is a value.  A   *)
(* text input is a sequence: <<>> is the empty text and <<n>> the text of  *)
(* the number n (of n/QtyScale in a quantity or stock input).              *)
(*                                                                         *)
(* Two variables are no state of the app: receipts is the history of the   *)
(* receipts the sales have produced (the app retains the last one only),   *)
(* and limit is the number of user steps a session is followed for.        *)
(***************************************************************************)
EXTENDS Integers, Sequences, FiniteSets, TLC

VARIABLES variant, user, view, products, storedInv, cart, taxRate,
          discountPct, paymentMethod, cashGiven, showCheckout, lastReceipt,
          now, renderNow, steps, last, receipts, limit

vars == <<variant, user, view, products, storedInv, cart, taxRate,
          discountPct, paymentMethod, cashGiven, showCheckout, lastReceipt,
          now, renderNow, steps, last, receipts, limit>>

(* ------------------------------ bounds -------------------------------- *)
MaxNow == 4
MaxStock == 2
MaxSteps == 5
MaxSaleSteps == 8

(* ----------------------------- constants ------------------------------ *)
TicksPerDay == 2
MoneyScale == 10000
QtyScale == 2
EXPIRY_SOON_DAYS == 30
Infinity == 1000000
NoExpiry == -1
\* useState(null) of the last receipt
NoReceipt ==
  [id |-> -1, items |-> <<>>, subtotal |-> 0, discountPct |-> 0,
   discountAmt |-> 0, taxRate |-> 0, taxAmt |-> 0, total |-> 0,
   paymentMethod |-> "", cashGiven |-> <<>>, change |-> <<>>, cashier |-> ""]
NoUser == [username |-> "", role |-> "", fullName |-> ""]
\* localStorage.getItem gives null for a key that was never set
NoItem == [present |-> FALSE, text |-> <<>>]

Variants == {"simple", "mnl"}

\* the session starts in the middle of day Today0
Today0 == 1
Now0 == Today0 * TicksPerDay + 1

USERS ==
  << [username |-> "admin", password |-> "admin123", role |-> "admin",
      fullName |-> "Administrator"],
     [username |-> "cashier", password |-> "cash123", role |-> "cashier",
      fullName |-> "Cashier"] >>

\* the session payload onLogin stores and the mount effect loads
Payload(found) ==
  [username |-> found.username, role |-> found.role, fullName |-> found.fullName]

(* The catalog the model starts from: two of the sample products, with the *)
(* stock and the expiry dates brought inside the bounds.                   *)
sampleProducts ==
  << [id |-> "GRC-002", sku |-> "480000000302", name |-> "Eggs (dozen)",
      category |-> "Grocery", price |-> 120, stock |-> MaxStock * QtyScale,
      expiry |-> Today0],
     [id |-> "PRC-001", sku |-> "480000000201", name |-> "Toothpaste 100g",
      category |-> "Personal Care", price |-> 89, stock |-> QtyScale,
      expiry |-> NoExpiry] >>

(* ------------------------------ inputs -------------------------------- *)
\* typed quantities: one piece more than the largest stock, and 1.5
QtyInputs == {(MaxStock + 1) * QtyScale, QtyScale + 1}
CashInputs == {<<>>, <<700>>}
\* texts typed into the Discount% and VAT% inputs (max 100 and 30 are only
\* attributes of the inputs: a larger number typed is handed on as it is)
PctInputs == {<<>>, <<10>>, <<150>>}
TaxInputs == {<<>>, <<12>>}
PaymentMethods == {"Cash", "Card"}
StockInputs == {<<-QtyScale>>, <<MaxStock * QtyScale>>}
\* min=0 is only an attribute of the price input: -50 can be typed
PriceInputs == {<<50>>, <<-50>>}
ExpiryInputs == {NoExpiry, Today0 - 1}
\* dates around today and around the end of the warning window
DateInputs ==
  {NoExpiry, Today0 - 1, Today0, Today0 + 1, Today0 + EXPIRY_SOON_DAYS,
   Today0 + EXPIRY_SOON_DAYS + 1}

(* ------------------------------ helpers ------------------------------- *)
Max(a, b) == IF a >= b THEN a ELSE b

\* Math.ceil(a / b) for b > 0
Ceil(a, b) == -((-a) \div b)

\* Number(text) of a number input: the empty text gives 0
Number(t) == IF t = <<>> THEN 0 ELSE t[1]

\* Array.prototype.findIndex on the id (0 where the source has -1)
FindIndex(seq, id) ==
  IF \E i \in DOMAIN seq : seq[i].id = id
    THEN CHOOSE i \in DOMAIN seq :
           seq[i].id = id /\ \A j \in 1..(i - 1) : seq[j].id # id
    ELSE 0

daysUntil(iso, t) ==
  IF iso = NoExpiry THEN Infinity
  ELSE Ceil(iso * TicksPerDay - t, TicksPerDay)

isExpired(iso, t) == daysUntil(iso, t) < 0

\* isExpiringSoon without the test of isExpired
isExpiringSoon_noExpiredTest(iso, t) == daysUntil(iso, t) <= EXPIRY_SOON_DAYS

isExpiringSoon(iso, t) == ~isExpired(iso, t) /\ daysUntil(iso, t) <= EXPIRY_SOON_DAYS

\* the warning lists, as the filters running at time t give them
expiringSoon(t) == SelectSeq(products, LAMBDA p : isExpiringSoon(p.expiry, t))
expired(t) == SelectSeq(products, LAMBDA p : isExpired(p.expiry, t))

(* ---------------------------- persistence ----------------------------- *)
\* JSON.stringify of the product list: one entry per product with its
\* fields in their order, the expiry null written as the empty entry
JSONstringify(list) ==
  [i \in DOMAIN list |->
     <<list[i].id, list[i].sku, list[i].name, list[i].category,
       <<list[i].price>>, <<list[i].stock>>,
       IF list[i].expiry = NoExpiry THEN <<>> ELSE <<list[i].expiry>> >>]

\* JSON.parse of such a text
JSONparse(text) ==
  [i \in DOMAIN text |->
     [id |-> text[i][1], sku |-> text[i][2], name |-> text[i][3],
      category |-> text[i][4], price |-> text[i][5][1], stock |-> text[i][6][1],
      expiry |-> IF text[i][7] = <<>> THEN NoExpiry ELSE text[i][7][1]]]

(* ------------------------------ pricing ------------------------------- *)
RECURSIVE SumLines(_)
SumLines(c) == IF c = <<>> THEN 0 ELSE Head(c).price * Head(c).qty + SumLines(Tail(c))

\* totals with a total that leaves the discount out
totals_discountNotApplied(c, disc, tax) ==
  LET sub == (SumLines(c) * MoneyScale) \div QtyScale
      d == (sub * disc) \div 100
      txbl == IF variant = "mnl" THEN sub - d ELSE Max(0, sub - d)
      t == (txbl * tax) \div 100
  IN [subtotal |-> sub, discountAmt |-> d, taxAmt |-> t, grandTotal |-> sub + t]

\* the totals useMemo; every amount in units of 1/MoneyScale
totals(c, disc, tax) ==
  LET sub == (SumLines(c) * MoneyScale) \div QtyScale
      d == (sub * disc) \div 100
      txbl == IF variant = "mnl" THEN sub - d ELSE Max(0, sub - d)
      t == (txbl * tax) \div 100
  IN [subtotal |-> sub, discountAmt |-> d, taxAmt |-> t, grandTotal |-> txbl + t]

grandTotal == totals(cart, discountPct, taxRate).grandTotal

\* the change useMemo
change ==
  IF paymentMethod # "Cash" THEN 0
  ELSE LET cg == Number(cashGiven) * MoneyScale - grandTotal
       IN IF variant = "mnl" THEN Max(0, cg)
          ELSE Max(0, ((cg + 50) \div 100) * 100)

(* ------------------------- checkout validator ------------------------- *)
\* canCheckout without the expiry date
canCheckout_noExpiry(t) ==
  /\ Len(cart) > 0
  /\ \A k \in DOMAIN cart :
       LET i == FindIndex(products, cart[k].id)
       IN i # 0 /\ cart[k].qty <= products[i].stock
  /\ (paymentMethod # "Cash" \/ Number(cashGiven) * MoneyScale >= grandTotal)

\* canCheckout without the comparison with the stock
canCheckout_noStockCheck(t) ==
  /\ Len(cart) > 0
  /\ \A k \in DOMAIN cart :
       LET i == FindIndex(products, cart[k].id)
       IN i # 0 /\ ~isExpired(products[i].expiry, t)
  /\ (paymentMethod # "Cash" \/ Number(cashGiven) * MoneyScale >= grandTotal)

\* canCheckout as a render at time t computes it
canCheckout(t) ==
  /\ Len(cart) > 0
  /\ \A k \in DOMAIN cart :
       LET i == FindIndex(products, cart[k].id)
       IN /\ i # 0
          /\ cart[k].qty <= products[i].stock
          /\ ~isExpired(products[i].expiry, t)
  /\ (paymentMethod # "Cash" \/ Number(cashGiven) * MoneyScale >= grandTotal)

isAdmin == user.role = "admin"

\* what is on screen: the mnl build shows only the login form to no user
LoggedIn == variant = "simple" \/ user # NoUser

\* the page below the top bar takes clicks unless the overlay of the
\* confirmation dialog (fixed inset-0) lies over it
PageShown(v) == LoggedIn /\ view = v /\ ~showCheckout

(* ------------------------------- state -------------------------------- *)
Init ==
  /\ variant \in Variants
  /\ user = IF variant = "mnl" THEN Payload(USERS[1]) ELSE NoUser
  /\ view = "pos"
  /\ products = sampleProducts
  /\ storedInv = NoItem
  /\ cart = <<>>
  /\ taxRate = 12
  /\ discountPct = 0
  /\ paymentMethod = "Cash"
  /\ cashGiven = <<0>>
  /\ showCheckout = FALSE
  /\ lastReceipt = NoReceipt
  /\ now = Now0
  /\ renderNow = Now0
  /\ steps = 0
  /\ last = [op |-> "init", id |-> "", arg |-> 0, err |-> "none"]
  /\ receipts = <<>>
  /\ limit = MaxSteps

\* a state change re-renders the page: the render reads the clock again
Rerender == renderNow' = now

\* every user action counts against the length of the session
Step == steps < limit /\ steps' = steps + 1

\* the handler ran to its end; id and arg are the row and the number it got
DoneOn(op, id, arg) ==
  Step /\ last' = [op |-> op, id |-> id, arg |-> arg, err |-> "none"]

Done(op) == DoneOn(op, "", 0)

\* the handler showed an alert and returned: no state change, no render
AlertOn(op, id, arg, err) ==
  /\ Step
  /\ last' = [op |-> op, id |-> id, arg |-> arg, err |-> err]
  /\ UNCHANGED renderNow

Alert(op, err) == AlertOn(op, "", 0, err)

(* -------------------------------- cart -------------------------------- *)
CartFrame ==
  UNCHANGED <<variant, limit, user, view, products, storedInv, taxRate,
              discountPct, paymentMethod, cashGiven, showCheckout, lastReceipt,
              receipts, now>>

inCartQty(id) ==
  LET i == FindIndex(cart, id) IN IF i = 0 THEN 0 ELSE cart[i].qty

\* addToCart looking at the stock before the expiry date
addToCart_stockFirst(prod) ==
  IF inCartQty(prod.id) + QtyScale > prod.stock
    THEN AlertOn("addToCart", prod.id, 0, "InsufficientStock") /\ UNCHANGED cart
  ELSE IF isExpired(prod.expiry, now)
    THEN AlertOn("addToCart", prod.id, 0, "ExpiredProduct") /\ UNCHANGED cart
  ELSE
    LET i == FindIndex(cart, prod.id)
    IN /\ cart' = IF i > 0
                    THEN [cart EXCEPT ![i].qty = @ + QtyScale]
                    ELSE Append(cart, [id |-> prod.id, name |-> prod.name,
                                       price |-> prod.price, qty |-> QtyScale])
       /\ DoneOn("addToCart", prod.id, 0)
       /\ Rerender

\* addToCart comparing the quantity in the cart, not the quantity asked for
addToCart_offByOne(prod) ==
  IF isExpired(prod.expiry, now)
    THEN AlertOn("addToCart", prod.id, 0, "ExpiredProduct") /\ UNCHANGED cart
  ELSE IF inCartQty(prod.id) > prod.stock
    THEN AlertOn("addToCart", prod.id, 0, "InsufficientStock") /\ UNCHANGED cart
  ELSE
    LET i == FindIndex(cart, prod.id)
    IN /\ cart' = IF i > 0
                    THEN [cart EXCEPT ![i].qty = @ + QtyScale]
                    ELSE Append(cart, [id |-> prod.id, name |-> prod.name,
                                       price |-> prod.price, qty |-> QtyScale])
       /\ DoneOn("addToCart", prod.id, 0)
       /\ Rerender

\* addToCart putting a new line in front of the cart
addToCart_prepend(prod) ==
  IF isExpired(prod.expiry, now)
    THEN AlertOn("addToCart", prod.id, 0, "ExpiredProduct") /\ UNCHANGED cart
  ELSE IF inCartQty(prod.id) + QtyScale > prod.stock
    THEN AlertOn("addToCart", prod.id, 0, "InsufficientStock") /\ UNCHANGED cart
  ELSE
    LET i == FindIndex(cart, prod.id)
    IN /\ cart' = IF i > 0
                    THEN [cart EXCEPT ![i].qty = @ + QtyScale]
                    ELSE <<[id |-> prod.id, name |-> prod.name,
                            price |-> prod.price, qty |-> QtyScale]>> \o cart
       /\ DoneOn("addToCart", prod.id, 0)
       /\ Rerender

\* addToCart copying the product's current price into the line it has
addToCart_refreshPrice(prod) ==
  IF isExpired(prod.expiry, now)
    THEN AlertOn("addToCart", prod.id, 0, "ExpiredProduct") /\ UNCHANGED cart
  ELSE IF inCartQty(prod.id) + QtyScale > prod.stock
    THEN AlertOn("addToCart", prod.id, 0, "InsufficientStock") /\ UNCHANGED cart
  ELSE
    LET i == FindIndex(cart, prod.id)
    IN /\ cart' = IF i > 0
                    THEN [cart EXCEPT ![i].qty = @ + QtyScale,
                                      ![i].price = prod.price]
                    ELSE Append(cart, [id |-> prod.id, name |-> prod.name,
                                       price |-> prod.price, qty |-> QtyScale])
       /\ DoneOn("addToCart", prod.id, 0)
       /\ Rerender

\* addToCart appending a line also when the product has one
addToCart_alwaysAppend(prod) ==
  IF isExpired(prod.expiry, now)
    THEN AlertOn("addToCart", prod.id, 0, "ExpiredProduct") /\ UNCHANGED cart
  ELSE IF inCartQty(prod.id) + QtyScale > prod.stock
    THEN AlertOn("addToCart", prod.id, 0, "InsufficientStock") /\ UNCHANGED cart
  ELSE
    /\ cart' = Append(cart, [id |-> prod.id, name |-> prod.name,
                             price |-> prod.price, qty |-> QtyScale])
    /\ DoneOn("addToCart", prod.id, 0)
    /\ Rerender

addToCart(prod) ==
  IF isExpired(prod.expiry, now)
    THEN AlertOn("addToCart", prod.id, 0, "ExpiredProduct") /\ UNCHANGED cart
  ELSE IF inCartQty(prod.id) + QtyScale > prod.stock
    THEN AlertOn("addToCart", prod.id, 0, "InsufficientStock") /\ UNCHANGED cart
  ELSE
    LET i == FindIndex(cart, prod.id)
    IN /\ cart' = IF i > 0
                    THEN [cart EXCEPT ![i].qty = @ + QtyScale]
                    ELSE Append(cart, [id |-> prod.id, name |-> prod.name,
                                       price |-> prod.price, qty |-> QtyScale])
       /\ DoneOn("addToCart", prod.id, 0)
       /\ Rerender

\* a product card of the catalog grid; the card of a product that the last
\* render found expired is disabled
ClickProduct(i) ==
  /\ PageShown("pos")
  /\ ~isExpired(products[i].expiry, renderNow)
  /\ addToCart(products[i])
  /\ CartFrame

\* updateQty without the comparison with the stock
updateQty_noStockCheck(id, n) ==
  /\ cart' = [k \in DOMAIN cart |->
                IF cart[k].id = id THEN [cart[k] EXCEPT !.qty = Max(QtyScale, n)]
                ELSE cart[k]]
  /\ DoneOn("updateQty", id, n)
  /\ Rerender

updateQty(id, n) ==
  LET qty == Max(QtyScale, n)
      i == FindIndex(products, id)
  IN IF i # 0 /\ qty > products[i].stock
       THEN AlertOn("updateQty", id, n, "InsufficientStock") /\ UNCHANGED cart
       ELSE /\ cart' = [k \in DOMAIN cart |->
                          IF cart[k].id = id THEN [cart[k] EXCEPT !.qty = qty]
                          ELSE cart[k]]
            /\ DoneOn("updateQty", id, n)
            /\ Rerender

\* the -, + buttons and the quantity input of a cart line
UpdateQty(k, n) ==
  /\ PageShown("pos")
  /\ updateQty(cart[k].id, n)
  /\ CartFrame

removeFromCart(id) ==
  /\ cart' = SelectSeq(cart, LAMBDA x : x.id # id)
  /\ DoneOn("removeFromCart", id, 0)
  /\ Rerender

RemoveFromCart(k) ==
  /\ PageShown("pos")
  /\ removeFromCart(cart[k].id)
  /\ CartFrame

clearCart ==
  /\ cart' = <<>>
  /\ Done("clearCart")
  /\ Rerender

ClearCart ==
  /\ PageShown("pos")
  /\ clearCart
  /\ CartFrame

(* ------------------------ settings and payment ------------------------ *)
\* the VAT% input of the top bar
SetTaxRate(t) ==
  /\ LoggedIn /\ Number(t) # taxRate
  /\ taxRate' = Number(t)
  /\ Done("setTaxRate") /\ Rerender
  /\ UNCHANGED <<variant, limit, user, view, products, storedInv, cart,
                 discountPct, paymentMethod, cashGiven, showCheckout,
                 lastReceipt, receipts, now>>

\* the Discount% input of the top bar
SetDiscountPct(t) ==
  /\ LoggedIn /\ Number(t) # discountPct
  /\ discountPct' = Number(t)
  /\ Done("setDiscountPct") /\ Rerender
  /\ UNCHANGED <<variant, limit, user, view, products, storedInv, cart, taxRate,
                 paymentMethod, cashGiven, showCheckout, lastReceipt, receipts,
                 now>>

SetPaymentMethod(m) ==
  /\ PageShown("pos") /\ m # paymentMethod
  /\ paymentMethod' = m
  /\ Done("setPaymentMethod") /\ Rerender
  /\ UNCHANGED <<variant, limit, user, view, products, storedInv, cart, taxRate,
                 discountPct, cashGiven, showCheckout, lastReceipt, receipts,
                 now>>

\* the Cash Given input, shown for cash payments; it keeps the typed text
SetCashGiven(t) ==
  /\ PageShown("pos") /\ paymentMethod = "Cash" /\ t # cashGiven
  /\ cashGiven' = t
  /\ Done("setCashGiven") /\ Rerender
  /\ UNCHANGED <<variant, limit, user, view, products, storedInv, cart, taxRate,
                 discountPct, paymentMethod, showCheckout, lastReceipt,
                 receipts, now>>

(* ------------------------------ checkout ------------------------------ *)
\* the Proceed to Checkout button, disabled when the last render computed
\* canCheckout false
OpenCheckout ==
  /\ PageShown("pos")
  /\ canCheckout(renderNow)
  /\ showCheckout' = TRUE
  /\ Done("openCheckout") /\ Rerender
  /\ UNCHANGED <<variant, limit, user, view, products, storedInv, cart, taxRate,
                 discountPct, paymentMethod, cashGiven, lastReceipt, receipts,
                 now>>

\* Cancel and the X of the confirmation dialog
CancelCheckout ==
  /\ LoggedIn /\ showCheckout
  /\ showCheckout' = FALSE
  /\ Done("cancelCheckout") /\ Rerender
  /\ UNCHANGED <<variant, limit, user, view, products, storedInv, cart, taxRate,
                 discountPct, paymentMethod, cashGiven, lastReceipt, receipts,
                 now>>

\* saveInventory keeping the list in memory only
saveInventory_memoryOnly(list) ==
  /\ products' = list
  /\ UNCHANGED storedInv

saveInventory(list) ==
  /\ products' = list
  /\ storedInv' = [present |-> TRUE, text |-> JSONstringify(list)]

\* a sale taking one unit for a line, whatever its quantity
deducted_oneUnit(p) ==
  IF FindIndex(cart, p.id) = 0 THEN p ELSE [p EXCEPT !.stock = @ - QtyScale]

\* a sale taking the quantity of the first line from the products without
\* a line as well
deducted_everyProduct(p) ==
  LET k == FindIndex(cart, p.id)
      q == IF k = 0 THEN cart[1].qty ELSE cart[k].qty
  IN [p EXCEPT !.stock = IF variant = "mnl" THEN Max(0, @ - q) ELSE @ - q]

\* a sale that leaves the stock as it is
deducted_nothing(p) == p

\* the stock a sale leaves of product p
deducted(p) ==
  LET k == FindIndex(cart, p.id)
  IN IF k = 0 THEN p
     ELSE [p EXCEPT !.stock = IF variant = "mnl" THEN Max(0, @ - cart[k].qty)
                              ELSE @ - cart[k].qty]

\* completeSale building the receipt from the cart it has emptied
completeSale_receiptAfterClear ==
  LET tt == totals(cart, discountPct, taxRate)
      receipt ==
        [id |-> now, items |-> <<>>, subtotal |-> tt.subtotal,
         discountPct |-> discountPct, discountAmt |-> tt.discountAmt,
         taxRate |-> taxRate, taxAmt |-> tt.taxAmt, total |-> tt.grandTotal,
         paymentMethod |-> paymentMethod,
         cashGiven |-> IF paymentMethod = "Cash" THEN <<Number(cashGiven)>> ELSE <<>>,
         change |-> IF paymentMethod = "Cash" THEN <<change>> ELSE <<>>,
         cashier |-> user.fullName]
  IN /\ saveInventory([i \in DOMAIN products |-> deducted(products[i])])
     /\ lastReceipt' = receipt
     /\ receipts' = Append(receipts, receipt)
     /\ showCheckout' = FALSE
     /\ cart' = <<>>
     /\ cashGiven' = <<0>>
     /\ Done("completeSale") /\ Rerender

\* completeSale leaving the confirmation dialog open
completeSale_keepDialog ==
  LET tt == totals(cart, discountPct, taxRate)
      receipt ==
        [id |-> now, items |-> cart, subtotal |-> tt.subtotal,
         discountPct |-> discountPct, discountAmt |-> tt.discountAmt,
         taxRate |-> taxRate, taxAmt |-> tt.taxAmt, total |-> tt.grandTotal,
         paymentMethod |-> paymentMethod,
         cashGiven |-> IF paymentMethod = "Cash" THEN <<Number(cashGiven)>> ELSE <<>>,
         change |-> IF paymentMethod = "Cash" THEN <<change>> ELSE <<>>,
         cashier |-> user.fullName]
  IN /\ saveInventory([i \in DOMAIN products |-> deducted(products[i])])
     /\ lastReceipt' = receipt
     /\ receipts' = Append(receipts, receipt)
     /\ UNCHANGED showCheckout
     /\ cart' = <<>>
     /\ cashGiven' = <<0>>
     /\ Done("completeSale") /\ Rerender

\* completeSale leaving the cart and the cash given as they are
completeSale_keepCart ==
  LET tt == totals(cart, discountPct, taxRate)
      receipt ==
        [id |-> now, items |-> cart, subtotal |-> tt.subtotal,
         discountPct |-> discountPct, discountAmt |-> tt.discountAmt,
         taxRate |-> taxRate, taxAmt |-> tt.taxAmt, total |-> tt.grandTotal,
         paymentMethod |-> paymentMethod,
         cashGiven |-> IF paymentMethod = "Cash" THEN <<Number(cashGiven)>> ELSE <<>>,
         change |-> IF paymentMethod = "Cash" THEN <<change>> ELSE <<>>,
         cashier |-> user.fullName]
  IN /\ saveInventory([i \in DOMAIN products |-> deducted(products[i])])
     /\ lastReceipt' = receipt
     /\ receipts' = Append(receipts, receipt)
     /\ showCheckout' = FALSE
     /\ UNCHANGED <<cart, cashGiven>>
     /\ Done("completeSale") /\ Rerender

\* the receipt id is OR- and the reading of the clock, Date.now()
completeSale ==
  LET tt == totals(cart, discountPct, taxRate)
      receipt ==
        [id |-> now, items |-> cart, subtotal |-> tt.subtotal,
         discountPct |-> discountPct, discountAmt |-> tt.discountAmt,
         taxRate |-> taxRate, taxAmt |-> tt.taxAmt, total |-> tt.grandTotal,
         paymentMethod |-> paymentMethod,
         cashGiven |-> IF paymentMethod = "Cash" THEN <<Number(cashGiven)>> ELSE <<>>,
         change |-> IF paymentMethod = "Cash" THEN <<change>> ELSE <<>>,
         cashier |-> user.fullName]
  IN /\ saveInventory([i \in DOMAIN products |-> deducted(products[i])])
     /\ lastReceipt' = receipt
     /\ receipts' = Append(receipts, receipt)
     /\ showCheckout' = FALSE
     /\ cart' = <<>>
     /\ cashGiven' = <<0>>
     /\ Done("completeSale") /\ Rerender

\* the Complete Sale button of the dialog; the last render disabled it when
\* it computed canCheckout false, and a click on a disabled button runs no
\* handler: the refused click is recorded as CheckoutNotEligible and changes
\* nothing. completeSale itself holds no test
ClickCompleteSale ==
  /\ LoggedIn /\ showCheckout
  /\ IF canCheckout(renderNow)
       THEN completeSale
       ELSE /\ Alert("completeSale", "CheckoutNotEligible")
            /\ UNCHANGED <<products, storedInv, lastReceipt, receipts,
                           showCheckout, cart, cashGiven>>
  /\ UNCHANGED <<variant, limit, user, view, taxRate, discountPct,
                 paymentMethod, now>>

(* ------------------------------- views -------------------------------- *)
SetView(v) ==
  /\ LoggedIn /\ v # view
  /\ v = "inventory" /\ variant = "mnl" => isAdmin
  /\ view' = v
  /\ Done("setView") /\ Rerender
  /\ UNCHANGED <<variant, limit, user, products, storedInv, cart, taxRate,
                 discountPct, paymentMethod, cashGiven, showCheckout,
                 lastReceipt, receipts, now>>

(* ------------------------- inventory (admin) -------------------------- *)
InvFrame ==
  UNCHANGED <<variant, limit, user, view, cart, taxRate, discountPct,
              paymentMethod, cashGiven, showCheckout, lastReceipt, receipts,
              now>>

\* the inventory table is what the page shows in the inventory view
InventoryShown == PageShown("inventory")

\* onChange fires when the typed text differs from the value shown
EditPrice(i, t) ==
  /\ InventoryShown /\ Number(t) # products[i].price
  /\ saveInventory([products EXCEPT ![i].price = Number(t)])
  /\ DoneOn("editPrice", products[i].id, 0) /\ Rerender
  /\ InvFrame

EditStock(i, t) ==
  /\ InventoryShown /\ Number(t) # products[i].stock
  /\ saveInventory([products EXCEPT ![i].stock = Max(0, Number(t))])
  /\ DoneOn("editStock", products[i].id, 0) /\ Rerender
  /\ InvFrame

\* the date input gives "" when cleared, stored as null
EditExpiry(i, d) ==
  /\ InventoryShown /\ d # products[i].expiry
  /\ saveInventory([products EXCEPT ![i].expiry = d])
  /\ DoneOn("editExpiry", products[i].id, 0) /\ Rerender
  /\ InvFrame

\* (category || "GEN").slice(0, 3).toUpperCase()
Prefix(category) ==
  CASE category = "" -> "GEN"
    [] category = "Grocery" -> "GRO"
    [] category = "Personal Care" -> "PER"
    [] OTHER -> "GEN"

\* String(n).padStart(3, "0")
PadStart3(n) ==
  IF n < 10 THEN "00" \o ToString(n)
  ELSE IF n < 100 THEN "0" \o ToString(n)
  ELSE ToString(n)

RECURSIVE NextFree(_, _, _)
NextFree(pref, n, inv) ==
  IF \E i \in DOMAIN inv : inv[i].id = pref \o "-" \o PadStart3(n)
    THEN NextFree(pref, n + 1, inv)
    ELSE n

\* genId without the loop over the ids there are
genId_noLoop(category, inv) ==
  Prefix(category) \o "-" \o PadStart3(Len(inv) + 1)

genId(category, inv) ==
  LET pref == Prefix(category)
  IN pref \o "-" \o PadStart3(NextFree(pref, Len(inv) + 1, inv))

\* the + Add Item button of the mnl build; newItem is the form
addItem(newItem) ==
  IF newItem.name = ""
    THEN /\ Alert("addItem", "NameRequired")
         /\ UNCHANGED <<products, storedInv>>
    ELSE LET id == genId(newItem.category, products)
         IN /\ saveInventory(Append(products,
                  [id |-> id, sku |-> "T" \o ToString(now), name |-> newItem.name,
                   category |-> IF newItem.category = "" THEN "General"
                                ELSE newItem.category,
                   price |-> Number(newItem.price),
                   stock |-> Number(newItem.stock),
                   expiry |-> newItem.expiry]))
            /\ DoneOn("addItem", id, 0) /\ Rerender

NewItems ==
  { [name |-> "", category |-> "", price |-> <<0>>, stock |-> <<0>>,
     expiry |-> NoExpiry],
    [name |-> "Milk", category |-> "", price |-> <<50>>, stock |-> <<QtyScale>>,
     expiry |-> NoExpiry],
    [name |-> "Milk", category |-> "Grocery", price |-> <<50>>, stock |-> <<-QtyScale>>,
     expiry |-> NoExpiry] }

AddItem(newItem) ==
  /\ variant = "mnl" /\ InventoryShown
  /\ addItem(newItem)
  /\ InvFrame

\* the Remove button of a row, once the confirm() is accepted
RemoveItem(i) ==
  /\ variant = "mnl" /\ InventoryShown
  /\ saveInventory(SelectSeq(products, LAMBDA p : p.id # products[i].id))
  /\ DoneOn("remove", products[i].id, 0) /\ Rerender
  /\ InvFrame

(* ------------------------------ scanner ------------------------------- *)
\* String.prototype.trim on the texts the scanner field gets
Trim(s) ==
  CASE s = " " -> ""
    [] s = " grc-002 " -> "grc-002"
    [] OTHER -> s

\* the letters of the id prefixes in both cases
PrefixCase ==
  { <<"GRC", "grc">>, <<"PRC", "prc">>, <<"GEN", "gen">>, <<"GRO", "gro">>,
    <<"PER", "per">> }

MaxSeq == Len(sampleProducts) + MaxSteps + 1

\* String.prototype.toLowerCase on ids and scanned texts
toLowerCase(s) ==
  IF \E pc \in PrefixCase, n \in 1..MaxSeq : s = pc[1] \o "-" \o PadStart3(n)
    THEN LET w == CHOOSE w \in PrefixCase \X (1..MaxSeq) :
                    s = w[1][1] \o "-" \o PadStart3(w[2])
         IN w[1][2] \o "-" \o PadStart3(w[2])
    ELSE s

\* products.find comparing the id as it is written
findBySkuOrId_caseSensitive(val) ==
  LET hit(x) == x.sku = val \/ x.id = val
  IN IF \E i \in DOMAIN products : hit(products[i])
       THEN CHOOSE i \in DOMAIN products :
              hit(products[i]) /\ \A j \in 1..(i - 1) : ~hit(products[j])
       ELSE 0

\* products.find of handleScan (0 when nothing matches)
findBySkuOrId(val) ==
  LET hit(x) == x.sku = val \/ toLowerCase(x.id) = toLowerCase(val)
  IN IF \E i \in DOMAIN products : hit(products[i])
       THEN CHOOSE i \in DOMAIN products :
              hit(products[i]) /\ \A j \in 1..(i - 1) : ~hit(products[j])
       ELSE 0

ScanTokens == {" ", " grc-002 ", "480000000201"}

\* the quick-add form of the simple build
handleScan(token) ==
  LET val == Trim(token)
  IN IF val = ""
       THEN Alert("handleScan", "none") /\ UNCHANGED cart
       ELSE LET i == findBySkuOrId(val)
            IN IF i # 0 THEN addToCart(products[i])
               ELSE Alert("handleScan", "NotFound") /\ UNCHANGED cart

HandleScan(token) ==
  /\ variant = "simple" /\ PageShown("pos")
  /\ handleScan(token)
  /\ CartFrame

(* -------------------------------- login ------------------------------- *)
Credentials ==
  { <<"admin", "admin123">>, <<"cashier", "cash123">>, <<"cashier", "admin123">> }

onLogin(u, p) ==
  IF \E i \in DOMAIN USERS : USERS[i].username = u /\ USERS[i].password = p
    THEN LET found == USERS[CHOOSE i \in DOMAIN USERS :
                               USERS[i].username = u /\ USERS[i].password = p]
         IN /\ user' = Payload(found)
            /\ Done("onLogin") /\ Rerender
    ELSE /\ Alert("onLogin", "InvalidLogin")
         /\ UNCHANGED user

OnLogin(u, p) ==
  /\ variant = "mnl" /\ user = NoUser
  /\ onLogin(u, p)
  /\ UNCHANGED <<variant, limit, view, products, storedInv, cart, taxRate,
                 discountPct, paymentMethod, cashGiven, showCheckout,
                 lastReceipt, receipts, now>>

OnLogout ==
  /\ variant = "mnl" /\ user # NoUser
  /\ user' = NoUser
  /\ Done("onLogout") /\ Rerender
  /\ UNCHANGED <<variant, limit, view, products, storedInv, cart, taxRate,
                 discountPct, paymentMethod, cashGiven, showCheckout,
                 lastReceipt, receipts, now>>

(* ------------------------------- reload ------------------------------- *)
\* the inventory the load effect of the mount puts in place of the default
loadInventory ==
  IF ~storedInv.present THEN sampleProducts
  ELSE LET inv == JSONparse(storedInv.text)
       IN IF variant = "simple" /\ Len(inv) = 0 THEN sampleProducts ELSE inv

\* the page is loaded again: every useState starts over, and the mount
\* effects load the session, the settings and the inventory that were stored
Reload ==
  /\ products' = loadInventory
  /\ view' = "pos"
  /\ cart' = <<>>
  /\ paymentMethod' = "Cash"
  /\ cashGiven' = <<0>>
  /\ showCheckout' = FALSE
  /\ lastReceipt' = NoReceipt
  /\ Done("reload") /\ Rerender
  /\ UNCHANGED <<variant, limit, user, storedInv, taxRate, discountPct, now,
                 receipts>>

(* -------------------------------- clock ------------------------------- *)
Tick ==
  /\ now < MaxNow
  /\ now' = now + 1
  /\ UNCHANGED <<variant, limit, user, view, products, storedInv, cart, taxRate,
                 discountPct, paymentMethod, cashGiven, showCheckout,
                 lastReceipt, receipts, renderNow, steps, last>>

Next ==
  \/ \E i \in DOMAIN products : ClickProduct(i)
  \/ \E token \in ScanTokens : HandleScan(token)
  \/ \E k \in DOMAIN cart :
       \E n \in QtyInputs \cup {cart[k].qty - QtyScale, cart[k].qty + QtyScale} :
         UpdateQty(k, n)
  \/ \E k \in DOMAIN cart : RemoveFromCart(k)
  \/ ClearCart
  \/ \E t \in TaxInputs : SetTaxRate(t)
  \/ \E t \in PctInputs : SetDiscountPct(t)
  \/ \E m \in PaymentMethods : SetPaymentMethod(m)
  \/ \E t \in CashInputs : SetCashGiven(t)
  \/ OpenCheckout
  \/ CancelCheckout
  \/ ClickCompleteSale
  \/ \E v \in {"pos", "inventory"} : SetView(v)
  \/ \E i \in DOMAIN products : \E t \in PriceInputs : EditPrice(i, t)
  \/ \E i \in DOMAIN products : \E t \in StockInputs : EditStock(i, t)
  \/ \E i \in DOMAIN products : \E d \in ExpiryInputs : EditExpiry(i, d)
  \/ \E ni \in NewItems : AddItem(ni)
  \/ \E i \in DOMAIN products : RemoveItem(i)
  \/ \E c \in Credentials : OnLogin(c[1], c[2])
  \/ OnLogout
  \/ Reload
  \/ Tick

Spec == Init /\ [][Next]_vars

(* -------------------------- a session of sales ------------------------- *)
\* a longer session at the till, without the settings and the admin's
\* catalog edits: long enough for a second sale
InitSales ==
  /\ variant \in Variants
  /\ user = IF variant = "mnl" THEN Payload(USERS[1]) ELSE NoUser
  /\ view = "pos"
  /\ products = sampleProducts
  /\ storedInv = NoItem
  /\ cart = <<>>
  /\ taxRate = 12
  /\ discountPct = 0
  /\ paymentMethod = "Cash"
  /\ cashGiven = <<0>>
  /\ showCheckout = FALSE
  /\ lastReceipt = NoReceipt
  /\ now = Now0
  /\ renderNow = Now0
  /\ steps = 0
  /\ last = [op |-> "init", id |-> "", arg |-> 0, err |-> "none"]
  /\ receipts = <<>>
  /\ limit = MaxSaleSteps

NextSales ==
  \/ \E i \in DOMAIN products : ClickProduct(i)
  \/ \E k \in DOMAIN cart : \E n \in QtyInputs : UpdateQty(k, n)
  \/ \E m \in PaymentMethods : SetPaymentMethod(m)
  \/ \E t \in CashInputs : SetCashGiven(t)
  \/ OpenCheckout
  \/ ClickCompleteSale
  \/ Reload
  \/ Tick

SpecSales == InitSales /\ [][NextSales]_vars

(* --------------------- the expiry dates of a catalog -------------------- *)
\* a session that starts from a stored catalog whose first product has any
\* of the dates, and in which the dates are edited and the products clicked
InitDates ==
  /\ variant \in Variants
  /\ user = IF variant = "mnl" THEN Payload(USERS[1]) ELSE NoUser
  /\ view = "pos"
  /\ \E d \in DateInputs :
       products = [sampleProducts EXCEPT ![1].expiry = d]
  /\ storedInv = [present |-> TRUE, text |-> JSONstringify(products)]
  /\ cart = <<>>
  /\ taxRate = 12
  /\ discountPct = 0
  /\ paymentMethod = "Cash"
  /\ cashGiven = <<0>>
  /\ showCheckout = FALSE
  /\ lastReceipt = NoReceipt
  /\ now = Now0
  /\ renderNow = Now0
  /\ steps = 0
  /\ last = [op |-> "init", id |-> "", arg |-> 0, err |-> "none"]
  /\ receipts = <<>>
  /\ limit = MaxSteps

NextDates ==
  \/ \E i \in DOMAIN products : ClickProduct(i)
  \/ \E v \in {"pos", "inventory"} : SetView(v)
  \/ \E i \in DOMAIN products : \E d \in DateInputs : EditExpiry(i, d)
  \/ Tick

SpecDates == InitDates /\ [][NextDates]_vars

(* ============================= properties ============================= *)
\* the step just taken ran the handler op
Ran(op) == steps' = steps + 1 /\ last'.op = op

\* the sale was committed in this step
Sold == Ran("completeSale") /\ last'.err = "none"

\* the date of the day at time t, and a dated product past its date
Today(t) == t \div TicksPerDay
PastDate(iso, t) == iso # NoExpiry /\ Today(t) > iso

\* the catalog row of product id
Row(id) == CHOOSE i \in DOMAIN products : products[i].id = id
InCatalog(id) == \E i \in DOMAIN products : products[i].id = id

\* C1: in every reachable state the stock of every product is >= 0.
C1_StockNonNegative == \A i \in DOMAIN products : products[i].stock >= 0

\* C2: no sale is committed with a line whose product is past its expiry
\* date at the moment of the commit.
C2_NoExpiredSold ==
  [][Sold => \A k \in DOMAIN cart :
               InCatalog(cart[k].id) /\ ~PastDate(products[Row(cart[k].id)].expiry, now)]_vars

\* C3: a committed sale leaves, of every product sold, the stock before the
\* sale minus the quantity of its line, and that stock is >= 0.
C3_StockDeducted ==
  [][Sold => \A k \in DOMAIN cart :
               /\ InCatalog(cart[k].id)
               /\ LET i == Row(cart[k].id)
                  IN /\ products'[i].stock = products[i].stock - cart[k].qty
                     /\ products'[i].stock >= 0]_vars

C3_Witness ==
  /\ last.op = "completeSale" /\ last.err = "none"
  /\ \E k \in DOMAIN lastReceipt.items, j \in DOMAIN sampleProducts :
       /\ sampleProducts[j].id = lastReceipt.items[k].id
       /\ lastReceipt.items[k].qty = 2 * QtyScale
       /\ InCatalog(sampleProducts[j].id)
       /\ products[Row(sampleProducts[j].id)].stock = sampleProducts[j].stock - 2 * QtyScale

\* the checkout validator of the specification, on the state at time t
Eligible(t) ==
  /\ cart # <<>>
  /\ \A k \in DOMAIN cart :
       \E i \in DOMAIN products :
         /\ products[i].id = cart[k].id
         /\ ~PastDate(products[i].expiry, t)
         /\ cart[k].qty <= products[i].stock
  /\ paymentMethod = "Cash" => Number(cashGiven) * MoneyScale >= grandTotal

\* C4: completeSale invoked while the validator is false changes the stock
\* of no product.
C4_NoStockChangeWhenNotEligible ==
  [][Ran("completeSale") /\ ~Eligible(now) => products' = products]_vars

\* C5: completeSale invoked while the validator is false fails with
\* CheckoutNotEligible and leaves the receipt, the cart and the cash given.
C5_FailsWithoutEffect ==
  [][Ran("completeSale") /\ ~Eligible(now) =>
       /\ last'.err = "CheckoutNotEligible"
       /\ lastReceipt' = lastReceipt
       /\ cart' = cart
       /\ cashGiven' = cashGiven]_vars

\* C6: canCheckout is true exactly when the cart is non-empty, every line's
\* product exists, is not past its date and has the line's quantity in stock,
\* and a cash payment gives at least the total (empty text counting as 0).
C6_CanCheckoutIff ==
  \A t \in {now, renderNow} : canCheckout(t) <=> Eligible(t)

C6_Witness ==
  /\ last.op = "setCashGiven" /\ cashGiven = <<>>
  /\ cart # <<>> /\ paymentMethod = "Cash"
  /\ ~canCheckout(now)
  /\ \A k \in DOMAIN cart :
       /\ InCatalog(cart[k].id)
       /\ cart[k].qty <= products[Row(cart[k].id)].stock
       /\ ~PastDate(products[Row(cart[k].id)].expiry, now)

\* C7: add on a product whose expiry date is in the past fails with
\* ExpiredProduct whatever its stock, and leaves the cart as it was.
C7_AddExpiredFails ==
  [][Ran("addToCart") /\ InCatalog(last'.id)
       /\ PastDate(products[Row(last'.id)].expiry, now)
     => last'.err = "ExpiredProduct" /\ cart' = cart]_vars

C7_Witness ==
  /\ last.op = "addToCart" /\ last.err = "ExpiredProduct"
  /\ InCatalog(last.id)
  /\ products[Row(last.id)].stock = 0
  /\ PastDate(products[Row(last.id)].expiry, now)

\* C8: add on a product that is not expired fails with InsufficientStock
\* when the quantity in the cart plus 1 exceeds the stock, and leaves the
\* cart as it was.
C8_AddBeyondStockFails ==
  [][Ran("addToCart") /\ InCatalog(last'.id)
       /\ ~PastDate(products[Row(last'.id)].expiry, now)
       /\ inCartQty(last'.id) + QtyScale > products[Row(last'.id)].stock
     => last'.err = "InsufficientStock" /\ cart' = cart]_vars

C8_Witness ==
  /\ last.op = "addToCart" /\ last.err = "InsufficientStock"
  /\ InCatalog(last.id)
  /\ inCartQty(last.id) >= QtyScale
  /\ inCartQty(last.id) = products[Row(last.id)].stock

\* C9: a successful add either adds 1 to the quantity of the product's line
\* and leaves the other lines, or appends a line of quantity 1 with the
\* product's name and price after the lines there are.
C9_AddChangesOneLine ==
  [][Ran("addToCart") /\ last'.err = "none" /\ InCatalog(last'.id) =>
       LET id == last'.id
           p == products[Row(id)]
       IN IF \E k \in DOMAIN cart : cart[k].id = id
            THEN /\ Len(cart') = Len(cart)
                 /\ \A k \in DOMAIN cart :
                      cart'[k] = IF cart[k].id = id
                                   THEN [cart[k] EXCEPT !.qty = cart[k].qty + QtyScale]
                                   ELSE cart[k]
            ELSE /\ Len(cart') = Len(cart) + 1
                 /\ SubSeq(cart', 1, Len(cart)) = cart
                 /\ cart'[Len(cart')] =
                      [id |-> id, name |-> p.name, price |-> p.price, qty |-> QtyScale]]_vars

C9_Witness ==
  /\ last.op = "addToCart" /\ last.err = "none"
  /\ Len(cart) = 2
  /\ cart[2].id = last.id /\ cart[2].qty = QtyScale

\* C10: updateQuantity never sets a line to more than the stock of its
\* product: a clamped request above the stock fails with InsufficientStock
\* and the line keeps the quantity it had.
C10_UpdateWithinStock ==
  [][Ran("updateQty") /\ InCatalog(last'.id) =>
       LET id == last'.id
           stock == products[Row(id)].stock
       IN /\ Max(QtyScale, last'.arg) > stock =>
               last'.err = "InsufficientStock" /\ cart' = cart
          /\ Len(cart') = Len(cart)
          /\ \A k \in DOMAIN cart :
               cart[k].id = id =>
                 cart'[k].qty <= stock \/ cart'[k].qty = cart[k].qty]_vars

C10_Witness ==
  /\ last.op = "updateQty" /\ last.err = "InsufficientStock"
  /\ InCatalog(last.id)
  /\ last.arg > products[Row(last.id)].stock
  /\ inCartQty(last.id) = QtyScale

\* C11: every cart line has an integer quantity >= 1; updateQuantity clamps
\* a request of 0 or less to 1 and keeps the line; only remove, clear and a
\* completed sale delete lines.
C11_QtyIntegerAtLeastOne ==
  [][/\ \A k \in DOMAIN cart' :
          cart'[k].qty % QtyScale = 0 /\ cart'[k].qty >= QtyScale
     /\ Ran("updateQty") /\ last'.arg <= 0 =>
          /\ Len(cart') = Len(cart)
          /\ \A k \in DOMAIN cart :
               cart[k].id = last'.id /\ last'.err = "none" => cart'[k].qty = QtyScale
     /\ Len(cart') < Len(cart) =>
          last'.op \in {"removeFromCart", "clearCart", "completeSale"}]_vars

\* C12: the cart holds at most one line per product id.
C12_OneLinePerProduct ==
  \A j, k \in DOMAIN cart : cart[j].id = cart[k].id => j = k

C12_Witness ==
  /\ last.op = "addToCart" /\ last.err = "none"
  /\ Len(cart) = 2
  /\ \E k \in DOMAIN cart : cart[k].id = last.id /\ cart[k].qty = 2 * QtyScale

\* every line refers to a product of the catalog and asks for no more than
\* its stock
WithinStock ==
  \A k \in DOMAIN cart :
    InCatalog(cart[k].id) /\ cart[k].qty <= products[Row(cart[k].id)].stock

\* the step is one of the admin's catalog edits
CatalogEdit ==
  last'.op \in {"editPrice", "editStock", "editExpiry", "addItem", "remove"}

\* C13: add, updateQuantity, remove, clear and completed sales keep every
\* line's quantity <= the current stock of its product, as long as no admin
\* catalog edit comes in between.
C13_CartWithinStock ==
  [][WithinStock /\ steps' = steps + 1 /\ ~CatalogEdit => WithinStock']_vars

C13_Witness ==
  /\ last.op = "updateQty" /\ last.err = "none"
  /\ products = sampleProducts
  /\ \E k \in DOMAIN cart :
       /\ cart[k].id = last.id
       /\ cart[k].qty = products[Row(cart[k].id)].stock
       /\ cart[k].qty > QtyScale

\* the pricing result of the specification, in units of 1/MoneyScale
PricingResult(c, disc, tax) ==
  LET sub == (SumLines(c) * MoneyScale) \div QtyScale
      discountAmount == (sub * disc) \div 100
      taxableAmount == Max(0, sub - discountAmount)
      taxAmount == (taxableAmount * tax) \div 100
  IN [subtotal |-> sub, discountAmt |-> discountAmount, taxAmt |-> taxAmount,
      grandTotal |-> taxableAmount + taxAmount]

\* C14: the totals are the pricing result of the cart and the settings
\* (taxable amount max(0, subtotal - discount)); one line 120 x 5 with
\* discount 10 and tax 12 gives 600, 60, 64.8 and 604.8.
C14_PricingFormula ==
  /\ totals(cart, discountPct, taxRate) = PricingResult(cart, discountPct, taxRate)
  /\ totals(<<[price |-> 120, qty |-> 5 * QtyScale]>>, 10, 12) =
       [subtotal |-> 600 * MoneyScale, discountAmt |-> 60 * MoneyScale,
        taxAmt |-> 648 * (MoneyScale \div 10),
        grandTotal |-> 6048 * (MoneyScale \div 10)]

Round2(x) == ((x + MoneyScale \div 200) \div (MoneyScale \div 100)) * (MoneyScale \div 100)

\* C16: the change due of a cash payment is max(0, cashGiven - total rounded
\* to 2 decimals), on screen and on the receipt; the receipt of any other
\* payment records cashGiven and change as null.
C16_ChangeRounded ==
  /\ paymentMethod = "Cash" =>
       change = Max(0, Round2(Number(cashGiven) * MoneyScale - grandTotal))
  /\ lastReceipt # NoReceipt =>
       IF lastReceipt.paymentMethod = "Cash"
         THEN /\ Len(lastReceipt.cashGiven) = 1 /\ Len(lastReceipt.change) = 1
              /\ lastReceipt.change[1] =
                   Max(0, Round2(lastReceipt.cashGiven[1] * MoneyScale
                                 - lastReceipt.total))
         ELSE lastReceipt.cashGiven = <<>> /\ lastReceipt.change = <<>>

\* C17: add item, remove item and the direct edits of price, stock and
\* expiry run only while the role of the session is admin; a cashier's
\* session never performs one.
C17_AdminOnlyCatalogEdits ==
  [][variant = "mnl" /\ steps' = steps + 1 /\ CatalogEdit =>
       user.role = "admin"]_vars

\* C18: a completed sale creates one receipt whose line items are the cart
\* at the commit; no other operation of the session changes the retained
\* receipt (a reload of the page starts a session that retains none).
C18_ReceiptImmutable ==
  [][IF Sold
       THEN lastReceipt' # NoReceipt /\ lastReceipt'.items = cart
       ELSE IF Ran("reload") THEN lastReceipt' = NoReceipt
       ELSE lastReceipt' = lastReceipt]_vars

C18_Witness ==
  /\ lastReceipt # NoReceipt /\ lastReceipt.items # <<>>
  /\ last.op = "addToCart" /\ last.err = "none"
  /\ cart # <<>> /\ cart # lastReceipt.items

\* C19: a line keeps the price the catalog had when the line was created:
\* a price edit leaves the cart, a line that stays keeps its price (also
\* when its product is added again), and a new line takes the catalog price.
C19_LinePriceKept ==
  [][/\ Ran("editPrice") => cart' = cart
     /\ \A k \in DOMAIN cart, j \in DOMAIN cart' :
          cart'[j].id = cart[k].id => cart'[j].price = cart[k].price
     /\ \A j \in DOMAIN cart' :
          (\A k \in DOMAIN cart : cart[k].id # cart'[j].id) =>
            /\ InCatalog(cart'[j].id)
            /\ cart'[j].price = products[Row(cart'[j].id)].price]_vars

C19_Witness ==
  /\ last.op = "addToCart" /\ last.err = "none"
  /\ \E k \in DOMAIN cart :
       /\ cart[k].id = last.id /\ cart[k].qty = 2 * QtyScale
       /\ InCatalog(cart[k].id)
       /\ cart[k].price # products[Row(cart[k].id)].price

\* the catalog rows a scanned text stands for
Resolves(val) ==
  {i \in DOMAIN products :
     products[i].sku = val \/ toLowerCase(products[i].id) = toLowerCase(val)}

\* the cart after one more piece of product p
CartPlusOne(p) ==
  IF \E k \in DOMAIN cart : cart[k].id = p.id
    THEN [k \in DOMAIN cart |->
            IF cart[k].id = p.id THEN [cart[k] EXCEPT !.qty = @ + QtyScale]
            ELSE cart[k]]
    ELSE Append(cart, [id |-> p.id, name |-> p.name, price |-> p.price,
                       qty |-> QtyScale])

IdPrefixes == {"GEN", "GRO", "PER"}
GenIdOf(pref, n) == pref \o "-" \o PadStart3(n)

\* C21: the id generated for a new item is prefix-number with the first
\* number from catalog size + 1 on that no product has under that prefix; it
\* equals the id of no product there is, so ids stay unique under add item
\* and remove item.
C21_GeneratedIdFresh ==
  [][/\ Ran("addItem") /\ last'.err = "none" =>
          /\ ~InCatalog(last'.id)
          /\ Len(products') = Len(products) + 1
          /\ products'[Len(products')].id = last'.id
          /\ \E pref \in IdPrefixes : \E n \in (Len(products) + 1)..MaxSeq :
               /\ last'.id = GenIdOf(pref, n)
               /\ \A m \in (Len(products) + 1)..(n - 1) : InCatalog(GenIdOf(pref, m))
     /\ \A i, j \in DOMAIN products' : products'[i].id = products'[j].id => i = j]_vars

\* an item added after a removal: the number after the catalog size is taken
C21_Witness ==
  /\ last.op = "addItem" /\ last.err = "none"
  /\ Len(products) = Len(sampleProducts) + 2
  /\ last.id = GenIdOf("GEN", Len(products) + 1)
  /\ InCatalog(GenIdOf("GEN", Len(products)))

\* the catalog a load of the page starts from
StoredCatalog ==
  IF storedInv.present THEN JSONparse(storedInv.text) ELSE sampleProducts

\* C22: after every catalog mutation (completed sale, admin edit, add item,
\* remove item) the inventory under the persistence key is the catalog in
\* memory; a reload leaves the key and starts from the inventory stored, and
\* from the default products when the key is absent.
C22_StoredCatalog ==
  [][/\ steps' = steps + 1 /\ (Sold \/ (CatalogEdit /\ last'.err = "none")) =>
          storedInv'.present /\ JSONparse(storedInv'.text) = products'
     /\ Ran("reload") =>
          /\ storedInv' = storedInv
          /\ products' = IF storedInv.present THEN JSONparse(storedInv.text)
                         ELSE sampleProducts
     /\ products' = StoredCatalog']_vars

\* a reload after a catalog mutation: the catalog is the one stored, with
\* a dated and an undated product
C22_Witness ==
  /\ last.op = "reload"
  /\ storedInv.present
  /\ products # sampleProducts
  /\ \E i \in DOMAIN products : products[i].expiry = NoExpiry
  /\ \E i \in DOMAIN products : products[i].expiry # NoExpiry

\* a reload before anything was stored
C22_WitnessAbsent ==
  last.op = "reload" /\ ~storedInv.present /\ products = sampleProducts /\ steps > 1

\* line k asks for more than the stock of its product
Overstocked(k) ==
  InCatalog(cart[k].id) /\ cart[k].qty > products[Row(cart[k].id)].stock

\* C23: a stock edit leaves the cart as it is, also when it takes the stock
\* below the quantity of a line; as long as a line asks for more than the
\* stock, canCheckout is false and no sale completes, and such a line stops
\* asking for more only by a lower quantity or a higher stock.
C23_OverstockedBlocksSale ==
  [][/\ Ran("editStock") => cart' = cart
     /\ (\E k \in DOMAIN cart : Overstocked(k)) =>
          ~canCheckout(now) /\ ~canCheckout(renderNow) /\ ~Sold
     /\ \A k \in DOMAIN cart, j \in DOMAIN cart' :
          /\ Overstocked(k) /\ cart'[j].id = cart[k].id
          /\ \E i \in DOMAIN products' : products'[i].id = cart[k].id
          /\ cart'[j].qty <= products'[CHOOSE i \in DOMAIN products' :
                                         products'[i].id = cart[k].id].stock
          => \/ cart'[j].qty < cart[k].qty /\ Ran("updateQty")
             \/ Ran("editStock") /\ cart'[j].qty = cart[k].qty]_vars

\* the stock was taken below a line that is otherwise ready for checkout
C23_Witness ==
  /\ last.op = "editStock"
  /\ paymentMethod = "Card"
  /\ \E k \in DOMAIN cart :
       /\ Overstocked(k)
       /\ cart[k].id = last.id
       /\ ~isExpired(products[Row(cart[k].id)].expiry, now)
  /\ ~canCheckout(now)

\* C24: a completed sale keeps the length and the order of the catalog,
\* leaves every product without a cart line as it is, and changes nothing
\* but the stock of a product with a line.
C24_SaleChangesStockOnly ==
  [][Sold =>
       /\ Len(products') = Len(products)
       /\ \A i \in DOMAIN products :
            IF \E k \in DOMAIN cart : cart[k].id = products[i].id
              THEN products'[i] = [products[i] EXCEPT !.stock = products'[i].stock]
              ELSE products'[i] = products[i]]_vars

\* a sale of one product out of a catalog of several
C24_Witness ==
  /\ last.op = "completeSale" /\ last.err = "none"
  /\ Len(lastReceipt.items) = 1
  /\ Len(products) >= 2
  /\ \E i, j \in DOMAIN products :
       /\ products[i].id = lastReceipt.items[1].id
       /\ products[j].id # lastReceipt.items[1].id
       /\ products[j].stock > 0
       /\ JSONparse(storedInv.text)[i].stock = products[i].stock

\* C25: a completed sale leaves the cart empty, the cash given 0 and the
\* confirmation dialog closed, so canCheckout is false after it; a sale
\* completes only with a cart that is not empty, and an empty cart gets a
\* line only by an add, so no second sale completes before one.
C25_AfterSale ==
  [][/\ Sold =>
          /\ cart # <<>>
          /\ cart' = <<>> /\ cashGiven' = <<0>> /\ ~showCheckout'
          /\ ~canCheckout(now)' /\ ~canCheckout(renderNow)'
     /\ cart = <<>> => ~canCheckout(now) /\ ~canCheckout(renderNow)
     /\ cart = <<>> /\ cart' # <<>> => Ran("addToCart") /\ last'.err = "none"]_vars

\* after a cash sale: the cash that was given is on the receipt, not pending
C25_Witness ==
  /\ last.op = "completeSale" /\ last.err = "none"
  /\ cart = <<>> /\ cashGiven = <<0>> /\ ~showCheckout
  /\ lastReceipt.paymentMethod = "Cash" /\ lastReceipt.cashGiven # <<0>>
  /\ ~canCheckout(now)

\* the days from the day of time t to the date
DaysLeft(iso, t) == iso - Today(t)

\* C26: a product is expired exactly when the time is past its date, and
\* expiring soon exactly when it is dated, not expired and 0 <= days left
\* <= 30; no product is in the expired list and in the expiring soon list
\* of the same time, and an undated product is in neither.
C26_ExpiryViews ==
  \A t \in Now0..now :
    /\ \A i \in DOMAIN products :
         LET iso == products[i].expiry
         IN /\ isExpired(iso, t) <=> PastDate(iso, t)
            /\ isExpiringSoon(iso, t) <=>
                 /\ iso # NoExpiry /\ ~PastDate(iso, t)
                 /\ 0 <= DaysLeft(iso, t) /\ DaysLeft(iso, t) <= EXPIRY_SOON_DAYS
    /\ \A j \in DOMAIN expired(t), k \in DOMAIN expiringSoon(t) :
         expired(t)[j].id # expiringSoon(t)[k].id
    /\ \A j \in DOMAIN expired(t) : expired(t)[j].expiry # NoExpiry
    /\ \A k \in DOMAIN expiringSoon(t) : expiringSoon(t)[k].expiry # NoExpiry

\* a catalog with a product on the last day of the warning window and one
\* that was expiring soon before the clock went on and is expired now
C26_Witness ==
  /\ last.op = "editExpiry" /\ now > Now0
  /\ \E i, j \in DOMAIN products :
       /\ isExpired(products[i].expiry, now)
       /\ isExpiringSoon(products[i].expiry, Now0)
       /\ isExpiringSoon(products[j].expiry, now)
       /\ DaysLeft(products[j].expiry, now) = EXPIRY_SOON_DAYS
  /\ Len(expired(now)) = 1 /\ Len(expiringSoon(now)) = 1

\* C27: in every reachable state the price of every product is >= 0.
C27_PriceNonNegative == \A i \in DOMAIN products : products[i].price >= 0

\* C28: any two receipts produced by two different completed sales have
\* different transaction identifiers.
C28_UniqueReceiptIds ==
  \A j, k \in DOMAIN receipts : receipts[j].id = receipts[k].id => j = k

\* the quantity of product id on the lines c, and on all receipts rs
RECURSIVE QtyOf(_, _)
QtyOf(id, c) ==
  IF c = <<>> THEN 0
  ELSE (IF Head(c).id = id THEN Head(c).qty ELSE 0) + QtyOf(id, Tail(c))

RECURSIVE SoldQty(_, _)
SoldQty(id, rs) ==
  IF rs = <<>> THEN 0 ELSE QtyOf(id, Head(rs).items) + SoldQty(id, Tail(rs))

\* C29: in a session without admin catalog edits, the stock of every product
\* plus the quantity of it on all receipts produced so far is its initial
\* stock.
C29_StockConserved ==
  /\ Len(products) = Len(sampleProducts)
  /\ \A i \in DOMAIN products :
       /\ products[i].id = sampleProducts[i].id
       /\ products[i].stock + SoldQty(products[i].id, receipts)
            = sampleProducts[i].stock

\* two sales of the same product, the second after the first was deducted
C29_Witness ==
  /\ Len(receipts) = 2
  /\ \E i \in DOMAIN products :
       /\ QtyOf(products[i].id, receipts[1].items) > 0
       /\ QtyOf(products[i].id, receipts[2].items) > 0
       /\ products[i].stock < sampleProducts[i].stock - QtyScale

\* the same in steps, for a session with catalog edits: a step that is no
\* catalog edit keeps the stock plus the quantity sold of every product
C29_StepConserves ==
  [][steps' = steps + 1 /\ ~CatalogEdit =>
       /\ Len(products') = Len(products)
       /\ \A i \in DOMAIN products :
            /\ products'[i].id = products[i].id
            /\ products'[i].stock + SoldQty(products[i].id, receipts')
                 = products[i].stock + SoldQty(products[i].id, receipts)]_vars

\* C30: every receipt of a cash sale records cashGiven >= total and change =
\* cashGiven - total, and the subtotal, discount amount, tax amount and
\* total of every receipt are the pricing result of its own line items under
\* its own discount and tax percentages.
C30_ReceiptConsistent ==
  \A k \in DOMAIN receipts :
    LET r == receipts[k]
    IN /\ r.paymentMethod = "Cash" =>
            /\ r.cashGiven[1] * MoneyScale >= r.total
            /\ r.change[1] = r.cashGiven[1] * MoneyScale - r.total
       /\ [subtotal |-> r.subtotal, discountAmt |-> r.discountAmt,
           taxAmt |-> r.taxAmt, grandTotal |-> r.total]
            = PricingResult(r.items, r.discountPct, r.taxRate)

====
